---- MODULE Spec2Model ----
(***************************************************************************)
(* A model of the address-book assistant of src/main.py: the validated     *)
(* fields (Phone, Birthday), Record, AddressBook, the persistence pair     *)
(* save_data / load_data, the input_error wrapper and the command loop     *)
(* App.run with its handlers.                                              *)
(*                                                                         *)
(* Text is modelled as a sequence of one-character strings, so that        *)
(* strip, isdigit, casefold, lower, shlex.split, strptime and strftime are *)
(* computed character by character.  The alphabet is ASCII letters and     *)
(* digits, the space, the tab, the dot, the hyphen and the double quote,   *)
(* and two characters outside ASCII that str.isdigit accepts.              *)
(* The user-facing messages of the source are Ukrainian; each is written   *)
(* here in ASCII, with the source line that holds the original.            *)
(***************************************************************************)
EXTENDS Integers, Sequences, FiniteSets, TLC

VARIABLES
    pc,      \* position of the process: "load", "run", "done", "crashed"
    book,    \* App.book: AddressBook.data, entries in insertion order
    disk,    \* the file DEFAULT_DB: [st, data]
    cmd,     \* the verb of the last line read (parse_input's first result)
    args,    \* the arguments of the last line read
    out,     \* what the last loop iteration did, in order: saves and view calls
    raised   \* the exception that left App.run (NoExc while none has)

vars == <<pc, book, disk, cmd, args, out, raised>>

(***************************************************************************)
(* Characters and strings                                                  *)
(***************************************************************************)
DigitChars == <<"0", "1", "2", "3", "4", "5", "6", "7", "8", "9">>

UpperChars == <<"A", "B", "D">>

LowerChars == <<"a", "b", "d">>

\* U+0662 ARABIC-INDIC DIGIT TWO, one character of the text
ArabicTwo == "U+0662"

\* U+00B2 SUPERSCRIPT TWO, one character of the text
SuperscriptTwo == "U+00B2"

IsAsciiDigitChar(c) == \E i \in 1..Len(DigitChars) : DigitChars[i] = c

\* str.isdigit() on one character: true of both characters outside ASCII
IsDigitChar(c) == IsAsciiDigitChar(c) \/ c \in {ArabicTwo, SuperscriptTwo}

\* the blanks str.strip() removes and shlex.split splits at
IsSpaceChar(c) == c \in {" ", "\t"}

DigitVal(c) == (CHOOSE i \in 1..Len(DigitChars) : DigitChars[i] = c) - 1

\* str.lower() / str.casefold() on one character of the alphabet
LowerChar(c) ==
    IF \E i \in 1..Len(UpperChars) : UpperChars[i] = c
    THEN LowerChars[CHOOSE i \in 1..Len(UpperChars) : UpperChars[i] = c]
    ELSE c

Lower(s) == [i \in 1..Len(s) |-> LowerChar(s[i])]

RECURSIVE LStrip(_)
LStrip(s) == IF s # <<>> /\ IsSpaceChar(Head(s)) THEN LStrip(Tail(s)) ELSE s

RECURSIVE RStrip(_)
RStrip(s) ==
    IF s # <<>> /\ IsSpaceChar(s[Len(s)]) THEN RStrip(SubSeq(s, 1, Len(s) - 1)) ELSE s

\* str.strip()
Strip(s) == RStrip(LStrip(s))

\* str.isdigit(): false for the empty string
IsDigit(s) == s # <<>> /\ \A i \in 1..Len(s) : IsDigitChar(s[i])

\* the digits the directives of strptime take: ASCII only
IsAsciiDigits(s) == s # <<>> /\ \A i \in 1..Len(s) : IsAsciiDigitChar(s[i])

RECURSIVE IntOf(_)
IntOf(s) == IF s = <<>> THEN 0 ELSE 10 * IntOf(SubSeq(s, 1, Len(s) - 1)) + DigitVal(s[Len(s)])

\* n written with exactly w digits (zero padded), least significant last
RECURSIVE Digits(_, _)
Digits(n, w) == IF w = 0 THEN <<>> ELSE Digits(n \div 10, w - 1) \o <<DigitChars[(n % 10) + 1]>>

(***************************************************************************)
(* Exceptions                                                              *)
(***************************************************************************)
NoExc == [type |-> "None", msg |-> ""]

Exc(t, m) == [type |-> t, msg |-> m]

\* main.py:24  "Номер телефону має складатися рівно з 10 цифр."
MsgPhoneFormat == "Phone number must consist of exactly 10 digits."

\* main.py:32
MsgDateFormat == "Invalid date format. Use DD.MM.YYYY"

\* main.py:51  "Цього номеру немає у контакті."
MsgNoSuchPhone == "This number is not in the contact."

\* main.py:59  "Старий номер не знайдено у контакті."
MsgOldNotFound == "Old number not found in the contact."

\* main.py:62  "День народження вже задано для цього контакту."
MsgBirthdaySet == "Birthday is already set for this contact."

\* main.py:77  "Контакт з таким іменем не знайдено."
MsgNoSuchContact == "No contact with this name."

\* main.py:172  "Недостатньо аргументів."
MsgNotEnoughArgs == "Not enough arguments."

\* main.py:174  "Контакт не знайдено."
MsgContactNotFound == "Contact not found."

\* main.py:263  "Для цього контакту не задано дня народження."
MsgNoBirthday == "No birthday is set for this contact."

\* main.py:303  "Invalid command. Введіть 'help' для довідки."
MsgInvalidCommand == "Invalid command. Enter 'help' for help."

\* the ValueError Python raises for `a, b, *_ = args` on too short a list
UnpackError(need, got) ==
    Exc("ValueError",
        "not enough values to unpack (expected at least " \o ToString(need)
            \o ", got " \o ToString(got) \o ")")

(***************************************************************************)
(* Fields                                                                  *)
(***************************************************************************)
PhoneLen == 10

\* Phone.__init__: [exc, value]
Phone(value) ==
    LET raw == Strip(value)
    IN  IF ~(IsDigit(raw) /\ Len(raw) = PhoneLen)
        THEN [exc |-> Exc("ValueError", MsgPhoneFormat), value |-> <<>>]
        ELSE [exc |-> NoExc, value |-> raw]

(***************************************************************************)
(* Calendar dates (datetime.date): [y, m, d]                               *)
(***************************************************************************)
Date(y, m, d) == [y |-> y, m |-> m, d |-> d]

IsLeap(y) == y % 4 = 0 /\ (y % 100 # 0 \/ y % 400 = 0)

MonthDays == <<31, 28, 31, 30, 31, 30, 31, 31, 30, 31, 30, 31>>

DaysInMonth(y, m) == IF m = 2 /\ IsLeap(y) THEN 29 ELSE MonthDays[m]

RECURSIVE DaysBeforeMonth(_, _)
DaysBeforeMonth(y, m) ==
    IF m = 1 THEN 0 ELSE DaysBeforeMonth(y, m - 1) + DaysInMonth(y, m - 1)

DaysBeforeYear(y) ==
    (y - 1) * 365 + ((y - 1) \div 4) - ((y - 1) \div 100) + ((y - 1) \div 400)

\* date.toordinal(): 1 is 01.01.0001
ToOrdinal(dt) == DaysBeforeYear(dt.y) + DaysBeforeMonth(dt.y, dt.m) + dt.d

\* date.fromordinal()
FromOrdinal(n) ==
    LET n0   == n - 1
        n400 == n0 \div 146097
        r400 == n0 % 146097
        n100 == r400 \div 36524
        r100 == r400 % 36524
        n4   == r100 \div 1461
        r4   == r100 % 1461
        n1   == r4 \div 365
        r1   == r4 % 365
        year == n400 * 400 + 1 + n100 * 100 + n4 * 4 + n1
    IN  IF n1 = 4 \/ n100 = 4
        THEN Date(year - 1, 12, 31)
        ELSE LET month == CHOOSE m \in 1..12 :
                              /\ DaysBeforeMonth(year, m) <= r1
                              /\ r1 < DaysBeforeMonth(year, m) + DaysInMonth(year, m)
             IN  Date(year, month, r1 - DaysBeforeMonth(year, month) + 1)

\* date.weekday(): Monday is 0, Saturday 5, Sunday 6
Weekday(dt) == (ToOrdinal(dt) + 6) % 7

\* d + timedelta(days=k)
AddDays(dt, k) == FromOrdinal(ToOrdinal(dt) + k)

DateLess(a, b) == ToOrdinal(a) < ToOrdinal(b)

DateLeq(a, b) == ToOrdinal(a) <= ToOrdinal(b)

\* date.replace(year=y): [exc, date]; 29 February has no image in a common year
ReplaceYear(dt, y) ==
    IF dt.d > DaysInMonth(y, dt.m)
    THEN [exc |-> Exc("ValueError", "day is out of range for month"), date |-> dt]
    ELSE [exc |-> NoExc, date |-> Date(y, dt.m, dt.d)]

\* date.strftime("%d.%m.%Y"), for a four-digit year
StrfDate(dt) == Digits(dt.d, 2) \o <<".">> \o Digits(dt.m, 2) \o <<".">> \o Digits(dt.y, 4)

\* datetime.strptime(s, "%d.%m.%Y").date(): [ok, date]
\* %d and %m take one or two digits and no zero value, %Y exactly four digits;
\* the whole string must be consumed and the date must exist (year >= 1).
StrpDate(s) ==
    LET dots == {i \in 1..Len(s) : s[i] = "."}
        bad  == [ok |-> FALSE, date |-> Date(1, 1, 1)]
    IN  IF Cardinality(dots) # 2 THEN bad
        ELSE LET i  == CHOOSE k \in dots : \A l \in dots : k <= l
                 j  == CHOOSE k \in dots : \A l \in dots : l <= k
                 dd == SubSeq(s, 1, i - 1)
                 mm == SubSeq(s, i + 1, j - 1)
                 yy == SubSeq(s, j + 1, Len(s))
             IN  IF ~(/\ IsAsciiDigits(dd) /\ Len(dd) <= 2 /\ IntOf(dd) \in 1..31
                      /\ IsAsciiDigits(mm) /\ Len(mm) <= 2 /\ IntOf(mm) \in 1..12
                      /\ IsAsciiDigits(yy) /\ Len(yy) = 4 /\ IntOf(yy) >= 1)
                 THEN bad
                 ELSE IF IntOf(dd) > DaysInMonth(IntOf(yy), IntOf(mm)) THEN bad
                 ELSE [ok |-> TRUE, date |-> Date(IntOf(yy), IntOf(mm), IntOf(dd))]

\* Birthday.__init__: [exc, value]
Birthday(value) ==
    LET p == StrpDate(Strip(value))
    IN  IF ~p.ok
        THEN [exc |-> Exc("ValueError", MsgDateFormat), value |-> <<>>]
        ELSE [exc |-> NoExc, value |-> StrfDate(p.date)]

(***************************************************************************)
(* Record: [name, phones, birthday]; birthday <<>> is None.                *)
(* Each method gives [exc, rec]: the exception raised (NoExc if none) and  *)
(* the record as the call leaves it.                                       *)
(***************************************************************************)
None == <<>>

\* Record.__init__
Record(name) == [name |-> name, phones |-> <<>>, birthday |-> None]

HasPhone(rec, v) == \E i \in 1..Len(rec.phones) : rec.phones[i] = v

FirstPhone(rec, v) ==
    CHOOSE i \in 1..Len(rec.phones) :
        rec.phones[i] = v /\ \A j \in 1..(i - 1) : rec.phones[j] # v

RemoveAt(s, i) == SubSeq(s, 1, i - 1) \o SubSeq(s, i + 1, Len(s))

\* add_phone without the test for a number already held
add_phone_always_appending(rec, phone) ==
    LET p == Phone(phone)
    IN  IF p.exc # NoExc THEN [exc |-> p.exc, rec |-> rec]
        ELSE [exc |-> NoExc, rec |-> [rec EXCEPT !.phones = Append(@, p.value)]]

\* Record.add_phone
add_phone(rec, phone) ==
    LET p == Phone(phone)
    IN  IF p.exc # NoExc THEN [exc |-> p.exc, rec |-> rec]
        ELSE IF HasPhone(rec, p.value) THEN [exc |-> NoExc, rec |-> rec]
        ELSE [exc |-> NoExc, rec |-> [rec EXCEPT !.phones = Append(@, p.value)]]

\* Record.remove_phone
remove_phone(rec, phone) ==
    LET p == Phone(phone)
    IN  IF p.exc # NoExc THEN [exc |-> p.exc, rec |-> rec]
        ELSE IF HasPhone(rec, p.value)
        THEN [exc |-> NoExc,
              rec |-> [rec EXCEPT !.phones = RemoveAt(@, FirstPhone(rec, p.value))]]
        ELSE [exc |-> Exc("ValueError", MsgNoSuchPhone), rec |-> rec]

\* edit_phone that looks for the old number before it validates the new one
edit_phone_search_first(rec, old, new) ==
    LET old_clean == Phone(old)
        new_phone == Phone(new)
    IN  IF old_clean.exc # NoExc THEN [exc |-> old_clean.exc, rec |-> rec]
        ELSE IF ~HasPhone(rec, old_clean.value)
        THEN [exc |-> Exc("ValueError", MsgOldNotFound), rec |-> rec]
        ELSE IF new_phone.exc # NoExc THEN [exc |-> new_phone.exc, rec |-> rec]
        ELSE [exc |-> NoExc,
              rec |-> [rec EXCEPT !.phones[FirstPhone(rec, old_clean.value)] =
                                      new_phone.value]]

\* Record.edit_phone
edit_phone(rec, old, new) ==
    LET old_clean == Phone(old)
        new_phone == Phone(new)
    IN  IF old_clean.exc # NoExc THEN [exc |-> old_clean.exc, rec |-> rec]
        ELSE IF new_phone.exc # NoExc THEN [exc |-> new_phone.exc, rec |-> rec]
        ELSE IF HasPhone(rec, old_clean.value)
        THEN [exc |-> NoExc,
              rec |-> [rec EXCEPT !.phones[FirstPhone(rec, old_clean.value)] =
                                      new_phone.value]]
        ELSE [exc |-> Exc("ValueError", MsgOldNotFound), rec |-> rec]

\* add_birthday without the test for a birthday already set
add_birthday_overwriting(rec, bday) ==
    LET b == Birthday(bday)
    IN  IF b.exc # NoExc THEN [exc |-> b.exc, rec |-> rec]
        ELSE [exc |-> NoExc, rec |-> [rec EXCEPT !.birthday = b.value]]

\* Record.add_birthday
add_birthday(rec, bday) ==
    IF rec.birthday # None
    THEN [exc |-> Exc("ValueError", MsgBirthdaySet), rec |-> rec]
    ELSE LET b == Birthday(bday)
         IN  IF b.exc # NoExc THEN [exc |-> b.exc, rec |-> rec]
             ELSE [exc |-> NoExc, rec |-> [rec EXCEPT !.birthday = b.value]]

(***************************************************************************)
(* AddressBook: UserDict.data as a sequence of entries [key, rec] in       *)
(* insertion order (a dict keeps it), no key twice.                        *)
(***************************************************************************)
EmptyBook == <<>>

\* _key that keeps the name as typed
_key_as_typed(name) == name

\* AddressBook._key: str.casefold
_key(name) == Lower(name)

HasKey(b, k) == \E i \in 1..Len(b) : b[i].key = k

IndexOf(b, k) == CHOOSE i \in 1..Len(b) : b[i].key = k

\* AddressBook.add_record: self.data[key] = record
add_record(b, record) ==
    LET k == _key(record.name)
    IN  IF HasKey(b, k)
        THEN [b EXCEPT ![IndexOf(b, k)] = [key |-> k, rec |-> record]]
        ELSE Append(b, [key |-> k, rec |-> record])

\* AddressBook.find: the place of the record in the book, 0 for None
find(b, name) == IF HasKey(b, _key(name)) THEN IndexOf(b, _key(name)) ELSE 0

\* delete that removes the oldest entry of the book when the key is there
delete_oldest(b, name) ==
    LET k == _key(name)
    IN  IF HasKey(b, k)
        THEN [exc |-> NoExc, book |-> Tail(b)]
        ELSE [exc |-> Exc("KeyError", MsgNoSuchContact), book |-> b]

\* AddressBook.delete: [exc, book]
delete(b, name) ==
    LET k == _key(name)
    IN  IF HasKey(b, k)
        THEN [exc |-> NoExc, book |-> RemoveAt(b, IndexOf(b, k))]
        ELSE [exc |-> Exc("KeyError", MsgNoSuchContact), book |-> b]

\* AddressBook._shift_if_weekend
_shift_if_weekend(d) ==
    IF Weekday(d) = 5 THEN AddDays(d, 2)
    ELSE IF Weekday(d) = 6 THEN AddDays(d, 1)
    ELSE d

\* the body of the loop of get_upcoming_birthdays for one record:
\* [exc, hit, item]
Greeting(rec, days, today) ==
    LET end_date == AddDays(today, days - 1)
        bday     == StrpDate(rec.birthday)
        this     == ReplaceYear(bday.date, today.y)
        next     == ReplaceYear(this.date, today.y + 1)
        miss     == [exc |-> NoExc, hit |-> FALSE, item |-> <<>>]
    IN  IF ~bday.ok
        THEN [exc |-> Exc("ValueError", "time data does not match format"),
              hit |-> FALSE, item |-> <<>>]
        ELSE IF this.exc # NoExc THEN [exc |-> this.exc, hit |-> FALSE, item |-> <<>>]
        ELSE IF DateLess(this.date, today) /\ next.exc # NoExc
        THEN [exc |-> next.exc, hit |-> FALSE, item |-> <<>>]
        ELSE LET bday_this_year == IF DateLess(this.date, today) THEN next.date
                                   ELSE this.date
                 greet == _shift_if_weekend(bday_this_year)
             IN  IF DateLeq(today, greet) /\ DateLeq(greet, end_date)
                 THEN [exc |-> NoExc, hit |-> TRUE,
                       item |-> [name |-> rec.name, date |-> StrfDate(greet)]]
                 ELSE miss

\* list.sort(key=date of the item): stable insertion of x into a sorted list
RECURSIVE InsertByDate(_, _)
InsertByDate(sorted, x) ==
    IF sorted = <<>> THEN <<x>>
    ELSE IF DateLess(StrpDate(x.date).date, StrpDate(Head(sorted).date).date)
    THEN <<x>> \o sorted
    ELSE <<Head(sorted)>> \o InsertByDate(Tail(sorted), x)

RECURSIVE SortByDate(_)
SortByDate(items) ==
    IF items = <<>> THEN <<>>
    ELSE InsertByDate(SortByDate(SubSeq(items, 1, Len(items) - 1)), items[Len(items)])

\* the for loop of get_upcoming_birthdays over the entries from i on: [exc, items]
RECURSIVE Collect(_, _, _, _)
Collect(b, i, days, today) ==
    IF i > Len(b) THEN [exc |-> NoExc, items |-> <<>>]
    ELSE IF b[i].rec.birthday = None THEN Collect(b, i + 1, days, today)
    ELSE LET g == Greeting(b[i].rec, days, today)
         IN  IF g.exc # NoExc THEN [exc |-> g.exc, items |-> <<>>]
             ELSE LET rest == Collect(b, i + 1, days, today)
                  IN  IF rest.exc # NoExc THEN rest
                      ELSE [exc |-> NoExc,
                            items |-> IF g.hit THEN <<g.item>> \o rest.items
                                      ELSE rest.items]

\* AddressBook.get_upcoming_birthdays: [exc, items]
get_upcoming_birthdays(b, days, today) ==
    LET r == Collect(b, 1, days, today)
    IN  IF r.exc # NoExc THEN r ELSE [exc |-> NoExc, items |-> SortByDate(r.items)]

(***************************************************************************)
(* Tokenizing a line                                                       *)
(***************************************************************************)
QuoteChar == "\""

\* shlex.split (posix): st is "ws" between tokens, "word" inside a token,
\* "dq" inside double quotes; [exc, parts]
RECURSIVE ShlexScan(_, _, _, _, _)
ShlexScan(s, i, st, tok, toks) ==
    IF i > Len(s)
    THEN IF st = "dq"
         THEN [exc |-> Exc("ValueError", "No closing quotation"), parts |-> <<>>]
         ELSE [exc |-> NoExc, parts |-> IF st = "word" THEN Append(toks, tok) ELSE toks]
    ELSE LET c == s[i]
         IN  IF st = "ws"
             THEN IF IsSpaceChar(c) THEN ShlexScan(s, i + 1, "ws", <<>>, toks)
                  ELSE IF c = QuoteChar THEN ShlexScan(s, i + 1, "dq", <<>>, toks)
                  ELSE ShlexScan(s, i + 1, "word", <<c>>, toks)
             ELSE IF st = "word"
             THEN IF IsSpaceChar(c) THEN ShlexScan(s, i + 1, "ws", <<>>, Append(toks, tok))
                  ELSE IF c = QuoteChar THEN ShlexScan(s, i + 1, "dq", tok, toks)
                  ELSE ShlexScan(s, i + 1, "word", Append(tok, c), toks)
             ELSE IF c = QuoteChar THEN ShlexScan(s, i + 1, "word", tok, toks)
                  ELSE ShlexScan(s, i + 1, "dq", Append(tok, c), toks)

shlex_split(s) == ShlexScan(s, 1, "ws", <<>>, <<>>)

\* App.parse_input: [exc, cmd, args]
parse_input(line) ==
    LET r == shlex_split(Strip(line))
    IN  IF r.exc # NoExc THEN [exc |-> r.exc, cmd |-> <<>>, args |-> <<>>]
        ELSE IF r.parts = <<>> THEN [exc |-> NoExc, cmd |-> <<>>, args |-> <<>>]
        ELSE [exc |-> NoExc, cmd |-> Lower(Head(r.parts)), args |-> Tail(r.parts)]

(***************************************************************************)
(* The verbs of App.run                                                    *)
(***************************************************************************)
V_exit == <<"e", "x", "i", "t">>

V_close == <<"c", "l", "o", "s", "e">>

V_hello == <<"h", "e", "l", "l", "o">>

V_help == <<"h", "e", "l", "p">>

V_add == <<"a", "d", "d">>

V_change == <<"c", "h", "a", "n", "g", "e">>

V_remove_phone == <<"r", "e", "m", "o", "v", "e", "-", "p", "h", "o", "n", "e">>

V_delete == <<"d", "e", "l", "e", "t", "e">>

V_phone == <<"p", "h", "o", "n", "e">>

V_all == <<"a", "l", "l">>

V_add_birthday == <<"a", "d", "d", "-", "b", "i", "r", "t", "h", "d", "a", "y">>

V_show_birthday == <<"s", "h", "o", "w", "-", "b", "i", "r", "t", "h", "d", "a", "y">>

V_birthdays == <<"b", "i", "r", "t", "h", "d", "a", "y", "s">>

Verbs ==
    {V_exit, V_close, V_hello, V_help, V_add, V_change, V_remove_phone, V_delete,
     V_phone, V_all, V_add_birthday, V_show_birthday, V_birthdays}

(***************************************************************************)
(* Persistence and the view                                                *)
(***************************************************************************)
\* what one loop iteration does, in order
Ev(kind, text, data) == [ev |-> kind, text |-> text, data |-> data]

\* save_data: the file holds the pickled book
save_data(b) == [st |-> "ok", data |-> b]

SaveEv(b) == Ev("save", "", b)

\* ConsoleView.show_message
show_message(text) == Ev("message", text, <<>>)

\* ConsoleView.show_message of a field's value (text kept as characters)
show_value(value) == Ev("message", "", value)

\* ConsoleView.show_error
show_error(text) == Ev("error", "[ERROR] " \o text, <<>>)

\* ConsoleView.show_contact, for a record
show_contact(rec) == Ev("contact", "", <<rec>>)

\* ConsoleView.show_contacts
show_contacts(b) == Ev("contacts", "", [i \in 1..Len(b) |-> b[i].rec])

\* ConsoleView.show_birthdays
show_birthdays(items) == Ev("birthdays", "", items)

\* ConsoleView.show_help
show_help == Ev("help", "", <<>>)

\* ConsoleView.show_goodbye
show_goodbye == Ev("goodbye", "Good bye!", <<>>)

\* date.today() as read by get_upcoming_birthdays
TodayEv(t) == Ev("today", "", <<t>>)

(***************************************************************************)
(* The handlers of App.  Each gives [book, disk, out, exc]: the book and   *)
(* the file as the call leaves them, what it did, and the exception that   *)
(* leaves it.                                                              *)
(***************************************************************************)
Res(b, d, o, e) == [book |-> b, disk |-> d, out |-> o, exc |-> e]

\* the decorator input_error, applied to the result of the wrapped call
input_error(r) ==
    IF r.exc = NoExc THEN r
    ELSE LET text ==
                 IF r.exc.type = "IndexError" THEN MsgNotEnoughArgs
                 ELSE IF r.exc.type = "AttributeError" THEN MsgContactNotFound
                 ELSE IF r.exc.type = "KeyError" THEN "'" \o r.exc.msg \o "'"
                 ELSE IF r.exc.type = "ValueError" THEN r.exc.msg
                 ELSE "Unexpected error: " \o r.exc.msg
         IN  Res(r.book, r.disk, Append(r.out, show_error(text)), NoExc)

NoneAttr == Exc("AttributeError", "'NoneType' object has no attribute")

\* rec.<method>(...) on the record at place i of the book: the record is
\* changed in place
SetRec(b, i, rec) == [b EXCEPT ![i].rec = rec]

\* handle_add with autosave called before rec.add_phone
handle_add_saving_early(b, d, a) ==
    IF Len(a) < 2 THEN Res(b, d, <<>>, UnpackError(2, Len(a)))
    ELSE LET found == find(b, a[1])
             b1    == IF found = 0 THEN add_record(b, Record(a[1])) ELSE b
             msg   == IF found = 0 THEN "Contact added." ELSE "Contact updated."
             i     == find(b1, a[1])
             r     == add_phone(b1[i].rec, a[2])
             b2    == SetRec(b1, i, r.rec)
         IN  IF r.exc # NoExc THEN Res(b2, save_data(b1), <<SaveEv(b1)>>, r.exc)
             ELSE Res(b2, save_data(b1), <<SaveEv(b1), show_message(msg)>>, NoExc)

\* handle_add that makes and stores a new record whether or not find gave one
handle_add_replacing(b, d, a) ==
    IF Len(a) < 2 THEN Res(b, d, <<>>, UnpackError(2, Len(a)))
    ELSE LET b1 == add_record(b, Record(a[1]))
             i  == find(b1, a[1])
             r  == add_phone(b1[i].rec, a[2])
             b2 == SetRec(b1, i, r.rec)
         IN  IF r.exc # NoExc THEN Res(b2, d, <<>>, r.exc)
             ELSE Res(b2, save_data(b2), <<SaveEv(b2), show_message("Contact added.")>>,
                      NoExc)

\* App.handle_add, undecorated
handle_add(b, d, a) ==
    IF Len(a) < 2 THEN Res(b, d, <<>>, UnpackError(2, Len(a)))
    ELSE LET name  == a[1]
             phone == a[2]
             found == find(b, name)
             b1    == IF found = 0 THEN add_record(b, Record(name)) ELSE b
             msg   == IF found = 0 THEN "Contact added." ELSE "Contact updated."
             i     == find(b1, name)
             r     == add_phone(b1[i].rec, phone)
             b2    == SetRec(b1, i, r.rec)
         IN  IF r.exc # NoExc THEN Res(b2, d, <<>>, r.exc)
             ELSE Res(b2, save_data(b2), <<SaveEv(b2), show_message(msg)>>, NoExc)

\* App.handle_change, undecorated
handle_change(b, d, a) ==
    IF Len(a) < 3 THEN Res(b, d, <<>>, UnpackError(3, Len(a)))
    ELSE LET i == find(b, a[1])
         IN  IF i = 0 THEN Res(b, d, <<>>, NoneAttr)
             ELSE LET r  == edit_phone(b[i].rec, a[2], a[3])
                      b2 == SetRec(b, i, r.rec)
                  IN  IF r.exc # NoExc THEN Res(b2, d, <<>>, r.exc)
                      ELSE Res(b2, save_data(b2),
                               <<SaveEv(b2), show_message("Phone changed.")>>, NoExc)

\* App.handle_remove_phone, undecorated
handle_remove_phone(b, d, a) ==
    IF Len(a) < 2 THEN Res(b, d, <<>>, UnpackError(2, Len(a)))
    ELSE LET i == find(b, a[1])
         IN  IF i = 0 THEN Res(b, d, <<>>, NoneAttr)
             ELSE LET r  == remove_phone(b[i].rec, a[2])
                      b2 == SetRec(b, i, r.rec)
                  IN  IF r.exc # NoExc THEN Res(b2, d, <<>>, r.exc)
                      ELSE Res(b2, save_data(b2),
                               <<SaveEv(b2), show_message("Phone removed.")>>, NoExc)

\* App.handle_delete, undecorated
handle_delete(b, d, a) ==
    IF Len(a) < 1 THEN Res(b, d, <<>>, UnpackError(1, Len(a)))
    ELSE LET r == delete(b, a[1])
         IN  IF r.exc # NoExc THEN Res(r.book, d, <<>>, r.exc)
             ELSE Res(r.book, save_data(r.book),
                      <<SaveEv(r.book), show_message("Contact deleted.")>>, NoExc)

\* App.handle_phone, undecorated
handle_phone(b, d, a) ==
    IF Len(a) < 1 THEN Res(b, d, <<>>, UnpackError(1, Len(a)))
    ELSE LET i == find(b, a[1])
         IN  IF i = 0 THEN Res(b, d, <<>>, NoneAttr)
             ELSE Res(b, d, <<show_contact(b[i].rec)>>, NoExc)

\* App.handle_all
handle_all(b, d) == Res(b, d, <<show_contacts(b)>>, NoExc)

\* App.handle_add_birthday, undecorated
handle_add_birthday(b, d, a) ==
    IF Len(a) < 2 THEN Res(b, d, <<>>, UnpackError(2, Len(a)))
    ELSE LET i == find(b, a[1])
         IN  IF i = 0 THEN Res(b, d, <<>>, NoneAttr)
             ELSE LET r  == add_birthday(b[i].rec, a[2])
                      b2 == SetRec(b, i, r.rec)
                  IN  IF r.exc # NoExc THEN Res(b2, d, <<>>, r.exc)
                      ELSE Res(b2, save_data(b2),
                               <<SaveEv(b2), show_message("Birthday added.")>>, NoExc)

\* App.handle_show_birthday, undecorated
handle_show_birthday(b, d, a) ==
    IF Len(a) < 1 THEN Res(b, d, <<>>, UnpackError(1, Len(a)))
    ELSE LET i == find(b, a[1])
         IN  IF i = 0 THEN Res(b, d, <<>>, NoneAttr)
             ELSE IF b[i].rec.birthday # None
             THEN Res(b, d, <<show_value(b[i].rec.birthday)>>, NoExc)
             ELSE Res(b, d, <<show_message(MsgNoBirthday)>>, NoExc)

WindowDays == 7

\* App.handle_birthdays, with the date date.today() gives
handle_birthdays(b, d, today) ==
    LET r == get_upcoming_birthdays(b, WindowDays, today)
    IN  IF r.exc # NoExc THEN Res(b, d, <<TodayEv(today)>>, r.exc)
        ELSE Res(b, d, <<TodayEv(today), show_birthdays(r.items)>>, NoExc)

\* App.handle_help
handle_help(b, d) == Res(b, d, <<show_help>>, NoExc)

(***************************************************************************)
(* The lines the user types                                                *)
(***************************************************************************)
Ann == <<"A", "n", "n">>

ann == <<"a", "n", "n">>

Bob == <<"B", "o", "b">>

\* a name no line adds
Nobody == <<"b", "o">>

Rep(c, n) == [i \in 1..n |-> c]

P1 == Rep("1", PhoneLen)

P2 == Rep("2", PhoneLen)

\* not a phone: three digits
PShort == Rep("1", 3)

\* a phone padded with blanks, which only a quoted argument can hold
P1Padded == <<" ">> \o P1 \o <<" ">>

Quoted(w) == <<QuoteChar>> \o w \o <<QuoteChar>>

RECURSIVE Join(_)
Join(words) ==
    IF words = <<>> THEN <<>>
    ELSE IF Len(words) = 1 THEN words[1]
    ELSE words[1] \o <<" ">> \o Join(Tail(words))

Dotted(dd, mm, yy) == dd \o <<".">> \o mm \o <<".">> \o yy

\* 6.1.1990, typed without the leading zeros: a Saturday in 2024
BdSatShort == Dotted(<<"6">>, <<"1">>, <<"1", "9", "9", "0">>)

\* the same day as Birthday stores it
BdSat == Dotted(<<"0", "6">>, <<"0", "1">>, <<"1", "9", "9", "0">>)

\* 29.02.2000
BdLeap == Dotted(<<"2", "9">>, <<"0", "2">>, <<"2", "0", "0", "0">>)

\* 31.02.1990: no such day
BdBad == Dotted(<<"3", "1">>, <<"0", "2">>, <<"1", "9", "9", "0">>)

\* the values date.today() takes
Todays == {Date(2024, 1, 1), Date(2023, 12, 28)}

AddLines ==
    {<<V_add>>, <<V_add, Ann>>, <<V_add, Ann, Quoted(P1Padded)>>, <<V_add, ann, P1>>,
     <<<<"A", "D", "D">>, Bob, P1>>, <<V_add, Bob, PShort>>}
    \cup {<<V_add, Ann, p>> : p \in {P1, P2, PShort}}

ChangeLines ==
    {<<V_change>>, <<V_change, Ann, P1>>, <<V_change, Nobody, P1, P2>>}
    \cup {<<V_change, ann, o, n>> : o \in {P1, P2}, n \in {P1, P2, PShort}}

RemoveLines ==
    {<<V_remove_phone, Ann>>, <<V_remove_phone, Nobody, P2>>}
    \cup {<<V_remove_phone, Ann, p>> : p \in {P1, P2, PShort}}

DeleteLines == {<<V_delete>>, <<V_delete, ann>>, <<V_delete, Bob>>, <<V_delete, Nobody>>}

QueryLines ==
    {<<V_phone>>, <<V_phone, ann>>, <<V_phone, Nobody>>, <<V_show_birthday>>,
     <<V_show_birthday, Ann>>, <<V_show_birthday, Nobody>>,
     <<V_all>>, <<V_help>>, <<V_hello>>, <<V_birthdays>>}

BirthdayLines ==
    {<<V_add_birthday, Ann>>, <<V_add_birthday, Nobody, BdSat>>}
    \cup {<<V_add_birthday, Ann, x>> : x \in {BdSatShort, BdLeap, BdBad}}

OtherLines ==
    {<<V_exit>>, <<V_close>>, <<>>, <<Bob>>, <<V_add, <<QuoteChar>> \o Ann, P1>>}

Lines ==
    {Join(w) : w \in AddLines \cup ChangeLines \cup RemoveLines \cup DeleteLines
                     \cup QueryLines \cup BirthdayLines \cup OtherLines}

\* what parse_input makes of each line
Parsed == {parse_input(l) : l \in Lines}

Unparsable == {p \in Parsed : p.exc # NoExc}

EmptyInputs == {p \in Parsed : p.exc = NoExc /\ p.cmd = <<>>}

ExitInputs == {p \in Parsed : p.cmd \in {V_exit, V_close}}

HelloInputs == {p \in Parsed : p.cmd = V_hello}

HelpInputs == {p \in Parsed : p.cmd = V_help}

AddInputs == {p \in Parsed : p.cmd = V_add}

ChangeInputs == {p \in Parsed : p.cmd = V_change}

RemovePhoneInputs == {p \in Parsed : p.cmd = V_remove_phone}

DeleteInputs == {p \in Parsed : p.cmd = V_delete}

PhoneInputs == {p \in Parsed : p.cmd = V_phone}

AllInputs == {p \in Parsed : p.cmd = V_all}

AddBirthdayInputs == {p \in Parsed : p.cmd = V_add_birthday}

ShowBirthdayInputs == {p \in Parsed : p.cmd = V_show_birthday}

BirthdaysInputs == {p \in Parsed : p.cmd = V_birthdays}

InvalidInputs == {p \in Parsed : p.exc = NoExc /\ p.cmd # <<>> /\ p.cmd \notin Verbs}

(***************************************************************************)
(* The process: main, load_data and the loop of App.run                    *)
(***************************************************************************)
MaxPhones == 2

\* a book an earlier run saved: add Ann 1111111111, add-birthday Ann 06.01.1990
SavedBook ==
    <<[key |-> ann, rec |-> [name |-> Ann, phones |-> <<P1>>, birthday |-> BdSat]]>>

InitDisks ==
    {[st |-> "missing", data |-> EmptyBook], [st |-> "corrupt", data |-> EmptyBook],
     save_data(EmptyBook), save_data(SavedBook)}

Init ==
    /\ pc = "load"
    /\ book = EmptyBook
    /\ disk \in InitDisks
    /\ cmd = <<>>
    /\ args = <<>>
    /\ out = <<>>
    /\ raised = NoExc

\* load_data: [exc, book]
load_data(d) ==
    IF d.st = "missing" THEN [exc |-> NoExc, book |-> EmptyBook]
    ELSE IF d.st = "ok" THEN [exc |-> NoExc, book |-> d.data]
    ELSE [exc |-> Exc("UnpicklingError", "invalid load key"), book |-> EmptyBook]

\* main: load_data, then App.run; main catches nothing
Load ==
    /\ pc = "load"
    /\ LET r == load_data(disk)
       IN  /\ book' = r.book
           /\ raised' = r.exc
           /\ pc' = IF r.exc = NoExc THEN "run" ELSE "crashed"
    /\ UNCHANGED <<disk, cmd, args, out>>

\* a pass of the loop with no finally clause: an exception leaves with the
\* file as the handlers left it
Iteration_without_finally(p, r) ==
    /\ pc = "run"
    /\ \A i \in 1..Len(r.book) : Len(r.book[i].rec.phones) <= MaxPhones
    /\ cmd' = p.cmd
    /\ args' = p.args
    /\ book' = r.book
    /\ disk' = r.disk
    /\ out' = r.out
    /\ raised' = r.exc
    /\ pc' = IF r.exc = NoExc THEN "run" ELSE "crashed"

\* one pass of the loop of App.run for the parsed line p, r being what the
\* branch taken did; an exception that leaves the loop passes the finally
\* clause, which saves
Iteration(p, r) ==
    /\ pc = "run"
    /\ \A i \in 1..Len(r.book) : Len(r.book[i].rec.phones) <= MaxPhones
    /\ cmd' = p.cmd
    /\ args' = p.args
    /\ book' = r.book
    /\ IF r.exc = NoExc
       THEN /\ pc' = "run"
            /\ disk' = r.disk
            /\ out' = r.out
            /\ raised' = NoExc
       ELSE /\ pc' = "crashed"
            /\ disk' = save_data(r.book)
            /\ out' = Append(r.out, SaveEv(r.book))
            /\ raised' = r.exc

\* parse_input raises: nothing in run catches it
ReadUnparsable == \E p \in Unparsable : Iteration(p, Res(book, disk, <<>>, p.exc))

\* input() raises EOFError at the end of the input
EndOfInput ==
    Iteration([cmd |-> <<>>, args |-> <<>>], Res(book, disk, <<>>, Exc("EOFError", "")))

\* `if not cmd: continue`
ReadEmpty == \E p \in EmptyInputs : Iteration(p, Res(book, disk, <<>>, NoExc))

\* exit, close: goodbye, break, and the finally clause saves
CmdExit ==
    \E p \in ExitInputs :
        /\ pc = "run"
        /\ pc' = "done"
        /\ cmd' = p.cmd
        /\ args' = p.args
        /\ disk' = save_data(book)
        /\ out' = <<show_goodbye, SaveEv(book)>>
        /\ UNCHANGED <<book, raised>>

CmdHello ==
    \E p \in HelloInputs :
        Iteration(p, Res(book, disk, <<show_message("How can I help you?")>>, NoExc))

CmdHelp == \E p \in HelpInputs : Iteration(p, handle_help(book, disk))

CmdAdd == \E p \in AddInputs : Iteration(p, input_error(handle_add(book, disk, p.args)))

CmdChange ==
    \E p \in ChangeInputs : Iteration(p, input_error(handle_change(book, disk, p.args)))

CmdRemovePhone ==
    \E p \in RemovePhoneInputs :
        Iteration(p, input_error(handle_remove_phone(book, disk, p.args)))

CmdDelete ==
    \E p \in DeleteInputs : Iteration(p, input_error(handle_delete(book, disk, p.args)))

CmdPhone ==
    \E p \in PhoneInputs : Iteration(p, input_error(handle_phone(book, disk, p.args)))

CmdAll == \E p \in AllInputs : Iteration(p, handle_all(book, disk))

CmdAddBirthday ==
    \E p \in AddBirthdayInputs :
        Iteration(p, input_error(handle_add_birthday(book, disk, p.args)))

CmdShowBirthday ==
    \E p \in ShowBirthdayInputs :
        Iteration(p, input_error(handle_show_birthday(book, disk, p.args)))

\* birthdays, date.today() being one of the days T
BirthdaysAt(T) ==
    \E p \in BirthdaysInputs, today \in T : Iteration(p, handle_birthdays(book, disk, today))

CmdBirthdays == BirthdaysAt(Todays)

\* the else branch of the verb chain
CmdInvalid ==
    \E p \in InvalidInputs :
        Iteration(p, Res(book, disk, <<show_message(MsgInvalidCommand)>>, NoExc))

Next ==
    \/ Load
    \/ ReadUnparsable
    \/ EndOfInput
    \/ ReadEmpty
    \/ CmdExit
    \/ CmdHello
    \/ CmdHelp
    \/ CmdAdd
    \/ CmdChange
    \/ CmdRemovePhone
    \/ CmdDelete
    \/ CmdPhone
    \/ CmdAll
    \/ CmdAddBirthday
    \/ CmdShowBirthday
    \/ CmdBirthdays
    \/ CmdInvalid

Spec == Init /\ [][Next]_vars

(***************************************************************************)
(* get_upcoming_birthdays on its own: books with birthdays around the turn *)
(* of the year, queried on each day of a range.                            *)
(***************************************************************************)
\* birthdays as Birthday stores them: 03.01, 06.01, 07.01, 25.12, 31.12, 29.02
StoredBirthdays ==
    {StrfDate(Date(1990, 1, 3)), StrfDate(Date(1990, 1, 6)), StrfDate(Date(1990, 1, 7)),
     StrfDate(Date(1990, 12, 25)), StrfDate(Date(1990, 12, 31)),
     StrfDate(Date(2000, 2, 29))}

BirthdayBooks ==
    {<<[key |-> ann, rec |-> [name |-> Ann, phones |-> <<P1>>, birthday |-> x]],
       [key |-> _key(Bob), rec |-> [name |-> Bob, phones |-> <<P2>>, birthday |-> y]]>> :
         x \in StoredBirthdays \cup {None}, y \in StoredBirthdays}

MaxDayOffset == 15

\* 25.12.2023 and the days after it
QueryDays == {AddDays(Date(2023, 12, 25), k) : k \in 0..MaxDayOffset}

InitBirthdays ==
    /\ pc = "run"
    /\ book \in BirthdayBooks
    /\ disk = save_data(book)
    /\ cmd = <<>>
    /\ args = <<>>
    /\ out = <<>>
    /\ raised = NoExc

QueryBirthdays == BirthdaysAt(QueryDays)

SpecBirthdays == InitBirthdays /\ [][QueryBirthdays]_vars

(***************************************************************************)
(* Phone on its own: the first line of a session is `add Ann "<text>"`,    *)
(* the text being near the length of a phone, with one character of it     *)
(* varied over the alphabet and blanks around it.                          *)
(***************************************************************************)
PhoneChars == {"1", ArabicTwo, SuperscriptTwo, "a", " ", "\t"}

\* n ones with any one of them replaced by a character of the alphabet
PhoneCores ==
    UNION {{[Rep("1", n) EXCEPT ![k] = c] : k \in 1..n, c \in PhoneChars} :
               n \in (PhoneLen - 1)..(PhoneLen + 1)}

PhonePads == {<<>>, <<" ">>, <<"\t", " ">>}

PhoneTexts == {l \o core \o r : l \in PhonePads, core \in PhoneCores, r \in PhonePads}

PhoneTextInputs == {parse_input(Join(<<V_add, Ann, Quoted(s)>>)) : s \in PhoneTexts}

InitPhone ==
    /\ pc = "run"
    /\ book = EmptyBook
    /\ disk = save_data(EmptyBook)
    /\ cmd = <<>>
    /\ args = <<>>
    /\ out = <<>>
    /\ raised = NoExc

\* the first line read
AddTyped ==
    /\ cmd = <<>>
    /\ \E p \in PhoneTextInputs : Iteration(p, input_error(handle_add(book, disk, p.args)))

SpecPhone == InitPhone /\ [][AddTyped]_vars

(***************************************************************************)
(* Properties                                                              *)
(***************************************************************************)
MutatingVerbs == {V_add, V_change, V_remove_phone, V_delete, V_add_birthday}

ReadOnlyVerbs == {V_phone, V_all, V_show_birthday, V_birthdays, V_help, V_hello}

HasEv(o, kind) == \E i \in 1..Len(o) : o[i].ev = kind

HasName(b, name) == \E i \in 1..Len(b) : b[i].rec.name = name

\* the number of arguments each handler unpacks
Required(v) ==
    IF v = V_change THEN 3
    ELSE IF v \in {V_add, V_remove_phone, V_add_birthday} THEN 2
    ELSE IF v \in {V_delete, V_phone, V_show_birthday} THEN 1
    ELSE 0

\* C1: for every input line no exception leaves the command loop: the only
\* exceptions that end the process come from outside the lines (end of input,
\* an unreadable file at load), and the loop is left normally only on the
\* verbs exit and close.
C1_NoExceptionLeavesLoop ==
    /\ raised.type \in {"None", "EOFError", "UnpicklingError"}
    /\ pc = "done" => cmd \in {V_exit, V_close}

\* C2: when a mutating command reports success, a save of the whole book as
\* the mutation left it came before the report, and the file holds that book.
C2_PersistBeforeReport ==
    (pc = "run" /\ cmd \in MutatingVerbs) =>
        \A j \in 1..Len(out) :
            out[j].ev = "message" =>
                /\ \E i \in 1..(j - 1) : out[i].ev = "save" /\ out[i].data = book
                /\ disk = save_data(book)

\* C2 witness: change has replaced a number and reported it
C2_Witness ==
    /\ pc = "run"
    /\ cmd = V_change
    /\ out = <<SaveEv(book), show_message("Phone changed.")>>
    /\ \E i \in 1..Len(book) : book[i].rec.phones = <<P2>>

\* C3: an add that reports an error leaves the book as it was: no record
\* enters the store through a failed add.
C3_FailedAddKeepsStore ==
    [][(pc = "run" /\ cmd' = V_add /\ HasEv(out', "error")) => book' = book]_vars

\* C4: no record holds the same phone value twice.
C4_NoDuplicatePhone ==
    \A k \in 1..Len(book) :
        \A i, j \in 1..Len(book[k].rec.phones) :
            i # j => book[k].rec.phones[i] # book[k].rec.phones[j]

\* C5: a command given fewer arguments than it unpacks reports the
\* insufficient-arguments error, and neither the book nor the file changes.
C5_TooFewArguments ==
    [][(pc = "run" /\ cmd' \in Verbs /\ Len(args') < Required(cmd')) =>
           /\ out' = <<show_error(MsgNotEnoughArgs)>>
           /\ book' = book
           /\ disk' = disk]_vars

\* the contact named a[1] is in the book and does not hold the well-formed
\* number a[2]
OldNumberAbsent(b, a) ==
    /\ Len(a) >= 3
    /\ find(b, a[1]) # 0
    /\ Phone(a[2]).exc = NoExc
    /\ ~HasPhone(b[find(b, a[1])].rec, Phone(a[2]).value)

\* C6 as claimed: editPhone on a record without the old number fails with
\* NotFound whatever the new value, and the record is unmodified.
C6_NotFoundWhateverNew ==
    [][(pc = "run" /\ cmd' = V_change /\ OldNumberAbsent(book, args')) =>
           /\ out' = <<show_error(MsgOldNotFound)>>
           /\ book' = book]_vars

\* C6 amended: editPhone on a record without the old number fails with
\* NotFound when the new value is a valid phone and with the validation error
\* when it is not (both numbers are validated before the search); either way
\* the record is unmodified.
C6_NotFoundForValidNew ==
    [][(pc = "run" /\ cmd' = V_change /\ OldNumberAbsent(book, args')) =>
           /\ out' = <<show_error(IF Phone(args'[3]).exc = NoExc THEN MsgOldNotFound
                                  ELSE MsgPhoneFormat)>>
           /\ book' = book]_vars

\* C6 witness: change of a number the contact does not hold into an invalid
\* one has reported the validation error
C6_Witness ==
    /\ pc = "run"
    /\ cmd = V_change
    /\ OldNumberAbsent(book, args)
    /\ Phone(args[3]).exc # NoExc
    /\ book[find(book, args[1])].rec.phones # <<>>
    /\ out = <<show_error(MsgPhoneFormat)>>

\* C7: a birthday once set stays as set while the record is in the book, and
\* add-birthday on a record that has one reports AlreadySet whatever the value.
C7_BirthdayOneShot ==
    [][/\ \A i \in 1..Len(book) :
              book[i].rec.birthday # None =>
                  \A j \in 1..Len(book') :
                      book'[j].key = book[i].key =>
                          book'[j].rec.birthday = book[i].rec.birthday
       /\ (/\ pc = "run"
           /\ cmd' = V_add_birthday
           /\ Len(args') >= 2
           /\ find(book, args'[1]) # 0
           /\ book[find(book, args'[1])].rec.birthday # None)
          => out' = <<show_error(MsgBirthdaySet)>>]_vars

\* C7 witness: a second add-birthday, with an invalid date, was refused as
\* already set
C7_Witness ==
    /\ pc = "run"
    /\ cmd = V_add_birthday
    /\ args = <<Ann, BdBad>>
    /\ out = <<show_error(MsgBirthdaySet)>>
    /\ \E i \in 1..Len(book) : book[i].rec.birthday = BdLeap

\* two names that differ only in letter case
CaseVariants(n1, n2) ==
    /\ Len(n1) = Len(n2)
    /\ \A i \in 1..Len(n1) :
           \/ n1[i] = n2[i]
           \/ \E k \in 1..Len(UpperChars) :
                  {n1[i], n2[i]} = {UpperChars[k], LowerChars[k]}

InputNames == {Ann, ann, Bob, <<"b", "o", "b">>, Nobody}

\* C8: every key is the case-folded name of its record, no two records have
\* names that differ only in case, and find answers alike for such names.
C8_KeyIsFoldedName ==
    /\ \A i \in 1..Len(book) : book[i].key = _key(book[i].rec.name)
    /\ \A i, j \in 1..Len(book) :
           CaseVariants(book[i].rec.name, book[j].rec.name) => i = j
    /\ \A n1, n2 \in InputNames :
           CaseVariants(n1, n2) => find(book, n1) = find(book, n2)

\* C8 witness: the contact added as Ann was shown for the name ann
C8_Witness ==
    /\ pc = "run"
    /\ HasName(book, Ann)
    /\ cmd = V_phone
    /\ args = <<ann>>
    /\ HasEv(out, "contact")

\* the greeting date as the specification words it, for a birthday bd whose
\* day exists in the year it is projected onto
Before(a, b) == <<a.y, a.m, a.d>> # <<b.y, b.m, b.d>> /\
    (a.y < b.y \/ (a.y = b.y /\ (a.m < b.m \/ (a.m = b.m /\ a.d < b.d))))

Projected(bd, today) ==
    IF Before(Date(today.y, bd.m, bd.d), today) THEN Date(today.y + 1, bd.m, bd.d)
    ELSE Date(today.y, bd.m, bd.d)

GreetingDate(bd, today) ==
    LET p == Projected(bd, today)
    IN  IF Weekday(p) = 5 THEN AddDays(p, 2)
        ELSE IF Weekday(p) = 6 THEN AddDays(p, 1)
        ELSE p

InWindow(g, today, days) ==
    ~Before(g, today) /\ ~Before(AddDays(today, days - 1), g)

\* the day of bd exists in the year it is projected onto
Projectable(bd, today) ==
    /\ bd.d <= DaysInMonth(today.y, bd.m)
    /\ bd.d <= DaysInMonth(Projected(bd, today).y, bd.m)

\* what the last birthdays command returned (nothing when it raised)
Returned == IF Len(out) >= 2 /\ out[2].ev = "birthdays" THEN out[2].data ELSE <<>>

\* C9: after upcomingBirthdays(7, today), a record is returned iff it has a
\* birthday whose greeting date lies in [today, today + 6], it is returned
\* with that date, and no returned date is a Saturday or a Sunday.
C9_ReturnedIffInWindow ==
    (cmd = V_birthdays /\ out # <<>> /\ out[1].ev = "today") =>
        LET today == out[1].data[1]
        IN  /\ \A k \in 1..Len(book) :
                   LET rec == book[k].rec
                       bd  == StrpDate(rec.birthday).date
                   IN  (rec.birthday = None \/ Projectable(bd, today)) =>
                           ((/\ rec.birthday # None
                             /\ InWindow(GreetingDate(bd, today), today, WindowDays))
                            <=> \E i \in 1..Len(Returned) :
                                    /\ Returned[i].name = rec.name
                                    /\ Returned[i].date = StrfDate(GreetingDate(bd, today)))
            /\ \A i \in 1..Len(Returned) :
                   /\ Weekday(StrpDate(Returned[i].date).date) < 5
                   /\ \E k \in 1..Len(book) : book[k].rec.name = Returned[i].name

\* C10: a read-only command leaves the book and the file as they were.
C10_ReadOnlyKeepsStoreAndFile ==
    [][(pc = "run" /\ cmd' \in ReadOnlyVerbs) => (book' = book /\ disk' = disk)]_vars

\* the calls of the view in o: every event but the saves and the reading of
\* the clock
ViewCalls(o) == {i \in 1..Len(o) : o[i].ev \notin {"save", "today"}}

\* C11: every execution of a command (a line whose first word is a verb)
\* makes exactly one call of the view: one message or rendering, or one
\* error, never both and never none.
C11_ExactlyOneOutcome ==
    (pc # "load" /\ cmd \in Verbs) => Cardinality(ViewCalls(out)) = 1

\* C12: whenever the command loop ends (exit, close, an exception that leaves
\* it, the end of the input) the last thing done is a save of the book, and
\* the file then holds the book as it is in memory.
C12_SavedWhenLoopEnds ==
    [][(pc = "run" /\ pc' # "run") =>
           /\ out' # <<>>
           /\ out'[Len(out')] = SaveEv(book')
           /\ disk' = save_data(book')]_vars

\* C12 witness: the loop was left by the exception of an unbalanced quote
\* while the book held a record no handler had saved (Bob, left without a
\* phone by a failed add), and the file holds that book
C12_Witness ==
    /\ pc = "crashed"
    /\ raised = Exc("ValueError", "No closing quotation")
    /\ \E i \in 1..Len(book) : book[i].rec = Record(Bob)
    /\ out = <<SaveEv(book)>>
    /\ disk = save_data(book)

\* C13: load never fails the process: whatever the file holds (nothing, a
\* saved book, bytes that are no pickle) load_data returns a book and the
\* loop starts, with the empty book when there is no file and with the saved
\* book when there is one.
C13_LoadNeverFails ==
    [][pc = "load" =>
           /\ pc' = "run"
           /\ raised' = NoExc
           /\ disk.st = "missing" => book' = EmptyBook
           /\ disk.st = "ok" => book' = disk.data]_vars

\* a decimal digit: 0..9, and the Arabic-Indic digit counted as one
IsDecimalDigitChar(c) == IsAsciiDigitChar(c) \/ c = ArabicTwo

\* C14: makePhone(s) succeeds iff s without the blanks around it is exactly
\* ten characters, each a decimal digit, and the value stored is then s
\* without those blanks.
C14_PhoneIffTenDecimalDigits ==
    (cmd = V_add /\ Len(args) = 2) =>
        LET t      == Strip(args[2])
            wanted == Len(t) = PhoneLen /\ \A i \in 1..Len(t) : IsDecimalDigitChar(t[i])
        IN  /\ wanted <=> out = <<SaveEv(book), show_message("Contact added.")>>
            /\ wanted => book[1].rec.phones = <<t>>
            /\ ~wanted => out = <<show_error(MsgPhoneFormat)>>

\* the entries of b other than the one for the name, in their order
Others(b, name) == SelectSeq(b, LAMBDA e : e.key # Lower(name))

\* C15: delete of a name with no entry under its case-folded form reports
\* NotFound and leaves the book, every entry of it, and the file as they
\* were; delete of a name that has an entry removes that entry and leaves
\* every other entry as it was.
C15_DeleteExactlyThatEntry ==
    [][(pc = "run" /\ cmd' = V_delete /\ Len(args') >= 1) =>
           IF Others(book, args'[1]) = book
           THEN /\ out' = <<show_error("'" \o MsgNoSuchContact \o "'")>>
                /\ book' = book
                /\ disk' = disk
           ELSE /\ out' = <<SaveEv(book'), show_message("Contact deleted.")>>
                /\ book' = Others(book, args'[1])
                /\ Len(book') = Len(book) - 1]_vars

\* C15 witness: Bob, added after Ann, was deleted and Ann is still there with
\* her phone
C15_Witness ==
    /\ pc = "run"
    /\ cmd = V_delete
    /\ args = <<Bob>>
    /\ out = <<SaveEv(book), show_message("Contact deleted.")>>
    /\ Len(book) = 1
    /\ book[1].rec.name = Ann
    /\ book[1].rec.phones # <<>>

\* the phones of the contact of that name (none when there is no contact)
PhonesOf(b, name) ==
    IF \E i \in 1..Len(b) : b[i].key = Lower(name)
    THEN b[CHOOSE i \in 1..Len(b) : b[i].key = Lower(name)].rec.phones
    ELSE <<>>

\* C16: adding a well-formed number whose trimmed value the record holds
\* leaves the phone sequence as it was; adding one it does not hold appends
\* the trimmed value at the end and leaves the earlier phones in their order.
C16_AddPhoneIdempotent ==
    [][(pc = "run" /\ cmd' = V_add /\ Len(args') >= 2 /\ Phone(args'[2]).exc = NoExc) =>
           LET old == PhonesOf(book, args'[1])
               new == PhonesOf(book', args'[1])
               v   == Strip(args'[2])
           IN  IF \E i \in 1..Len(old) : old[i] = v
               THEN new = old
               ELSE new = Append(old, v)]_vars

\* C16 witness: the number Ann holds was added once more, typed with blanks
\* around it, and her phones are that number and a later one, once each
C16_Witness ==
    /\ pc = "run"
    /\ cmd = V_add
    /\ args = <<Ann, P1Padded>>
    /\ out = <<SaveEv(book), show_message("Contact updated.")>>
    /\ PhonesOf(book, Ann) = <<P1, P2>>

\* C17: between commands the file holds the book as it is in memory: what
\* load_data would give back is the book of the running loop.
C17_FileHoldsBook == pc = "run" => load_data(disk).book = book

\* C18: the birthdays query is total: for every book of valid birthdays,
\* 29 February among them, and every day it is asked on, it returns a list,
\* the view shows it, and the loop goes on.
C18_BirthdaysIsTotal ==
    cmd = V_birthdays =>
        /\ pc = "run"
        /\ raised = NoExc
        /\ Len(out) = 2
        /\ out[2].ev = "birthdays"

\* C19: a greeting does not vanish before its day: when a query on the day t
\* returns a record with the greeting date D, a following query on a day t2
\* with t <= t2 <= D that returns at all returns that record with the same
\* date D.
C19_GreetingStaysUntilItsDay ==
    [][(cmd = V_birthdays /\ cmd' = V_birthdays /\ pc' = "run") =>
           LET t  == out[1].data[1]
               t2 == out'[1].data[1]
           IN  \A i \in 1..Len(Returned) :
                   (/\ DateLeq(t, t2)
                    /\ DateLeq(t2, StrpDate(Returned[i].date).date))
                   => \E j \in 1..Len(Returned') : Returned'[j] = Returned[i]]_vars

\* s is the beginning of t
IsPrefix(s, t) == Len(s) <= Len(t) /\ SubSeq(t, 1, Len(s)) = s

\* C20: an add never replaces a record: when the book has an entry for the
\* case-folded name, every entry stays in its place under its key with its
\* display name and its birthday, the entry named keeps its phones in order
\* and gains at most the number added, the other entries are untouched, and
\* a new contact is announced only when the book had no entry for the name.
C20_AddNeverReplaces ==
    [][(pc = "run" /\ cmd' = V_add /\ Len(args') >= 2) =>
           IF \E i \in 1..Len(book) : book[i].key = Lower(args'[1])
           THEN /\ Len(book') = Len(book)
                /\ \A i \in 1..Len(book) :
                       /\ book'[i].key = book[i].key
                       /\ book'[i].rec.name = book[i].rec.name
                       /\ book'[i].rec.birthday = book[i].rec.birthday
                       /\ IsPrefix(book[i].rec.phones, book'[i].rec.phones)
                       /\ Len(book'[i].rec.phones) <= Len(book[i].rec.phones) + 1
                       /\ book[i].key # Lower(args'[1]) => book'[i] = book[i]
                /\ out' # <<SaveEv(book'), show_message("Contact added.")>>
           ELSE /\ Len(book') = Len(book) + 1
                /\ SubSeq(book', 1, Len(book)) = book
                /\ book'[Len(book')].rec.name = args'[1]]_vars

\* C20 witness: a number was added under the name ann to the contact Ann,
\* who keeps her name, her earlier phone and her birthday
C20_Witness ==
    /\ pc = "run"
    /\ cmd = V_add
    /\ args = <<ann, P1>>
    /\ out = <<SaveEv(book), show_message("Contact updated.")>>
    /\ \E i \in 1..Len(book) :
           book[i] = [key |-> ann,
                      rec |-> [name |-> Ann, phones |-> <<P2, P1>>, birthday |-> BdLeap]]

====
